---- MODULE Spec2Model ----
(***************************************************************************)
(* Wine catalog web application (app.py): the dataset cache and its        *)
(* download/load/refresh lifecycle, the description classifier, and the    *)
(* filter / sort / paginate pipeline of the index request handler.         *)
(*                                                                         *)
(* Python str values are sequences of one-character strings, so that       *)
(* lower(), strip(), the `in` substring test, float(), ", ".join and       *)
(* split(", ") are computed character by character.  None is a value that  *)
(* is no such sequence.                                                     *)
(***************************************************************************)
EXTENDS Integers, Sequences, FiniteSets, TLC

VARIABLES csv_file, WINES_CACHE, drive_csv, drive_up, response, phase, handled, call, ret

vars == <<csv_file, WINES_CACHE, drive_csv, drive_up, response, phase, handled, call, ret>>

(***************************************************************************)
(* Python values                                                           *)
(***************************************************************************)
None == <<"None">>

UpperAlpha == <<"A","B","C","D","E","F","G","H","I","J","K","L","M",
                "N","O","P","Q","R","S","T","U","V","W","X","Y","Z">>

LowerAlpha == <<"a","b","c","d","e","f","g","h","i","j","k","l","m",
                "n","o","p","q","r","s","t","u","v","w","x","y","z">>

UpperSet == {UpperAlpha[i] : i \in 1..26}

LowerOf == [c \in UpperSet |-> LowerAlpha[CHOOSE i \in 1..26 : UpperAlpha[i] = c]]

\* str.lower()
lower(s) == [i \in 1..Len(s) |-> IF s[i] \in UpperSet THEN LowerOf[s[i]] ELSE s[i]]

\* the substring test  w in t
Contains(w, t) == \E i \in 0..(Len(t) - Len(w)) : SubSeq(t, i + 1, i + Len(w)) = w

\* any(w in t for w in words)
any_in(words, t) == \E k \in 1..Len(words) : Contains(words[k], t)

Whitespace == {" ", "\t", "\n", "\r"}

RECURSIVE lstrip(_)
lstrip(s) == IF s # <<>> /\ Head(s) \in Whitespace THEN lstrip(Tail(s)) ELSE s

RECURSIVE rstrip(_)
rstrip(s) ==
    IF s # <<>> /\ s[Len(s)] \in Whitespace THEN rstrip(SubSeq(s, 1, Len(s) - 1)) ELSE s

\* str.strip()
strip(s) == rstrip(lstrip(s))

(***************************************************************************)
(* Classifier: sweetness_from_desc and style_tags_from_desc                *)
(***************************************************************************)
dry_words ==
    << <<"b","o","n","e","-","d","r","y">>,
       <<"b","o","n","e"," ","d","r","y">>,
       <<"v","e","r","y"," ","d","r","y">>,
       <<"c","r","i","s","p">>,
       <<"t","a","u","t">>,
       <<"z","e","s","t","y">>,
       <<"r","a","c","y"," ","a","c","i","d","i","t","y">>,
       <<"h","i","g","h"," ","a","c","i","d","i","t","y">>,
       <<"b","r","a","c","i","n","g"," ","a","c","i","d","i","t","y">>,
       <<"l","e","a","n">>,
       <<"m","i","n","e","r","a","l","l","y">>,
       <<"c","h","a","l","k","y">>,
       <<"s","t","e","e","l","y">> >>

medium_words ==
    << <<"o","f","f","-","d","r","y">>,
       <<"o","f","f"," ","d","r","y">>,
       <<"h","i","n","t"," ","o","f"," ","s","w","e","e","t","n","e","s","s">>,
       <<"t","o","u","c","h"," ","o","f"," ","s","w","e","e","t","n","e","s","s">>,
       <<"s","l","i","g","h","t","l","y"," ","s","w","e","e","t">>,
       <<"t","r","a","c","e"," ","o","f"," ","s","w","e","e","t","n","e","s","s">>,
       <<"k","i","s","s"," ","o","f"," ","s","w","e","e","t","n","e","s","s">>,
       <<"r","i","p","e"," ","f","r","u","i","t">>,
       <<"l","u","s","h">>,
       <<"r","o","u","n","d"," ","a","n","d"," ","f","r","u","i","t","y">> >>

sweet_words ==
    << <<"d","e","s","s","e","r","t"," ","w","i","n","e">>,
       <<"d","e","s","s","e","r","t","-","s","t","y","l","e">>,
       <<"l","a","t","e"," ","h","a","r","v","e","s","t">>,
       <<"i","c","e"," ","w","i","n","e">>,
       <<"p","o","r","t">>,
       <<"s","a","u","t","e","r","n","e","s">>,
       <<"m","o","s","c","a","t","o">>,
       <<"s","t","i","c","k","y">>,
       <<"h","o","n","e","y","e","d">>,
       <<"v","e","r","y"," ","s","w","e","e","t">>,
       <<"s","y","r","u","p","y">>,
       <<"u","n","c","t","u","o","u","s">> >>

fruity_words ==
    << <<"f","r","u","i","t">>,
       <<"b","e","r","r","i","e","s">>,
       <<"b","e","r","r","y">>,
       <<"p","l","u","m">>,
       <<"p","e","a","c","h">>,
       <<"a","p","p","l","e">>,
       <<"p","e","a","r">>,
       <<"c","h","e","r","r","y">>,
       <<"c","i","t","r","u","s">>,
       <<"o","r","a","n","g","e">>,
       <<"l","e","m","o","n">>,
       <<"l","i","m","e">>,
       <<"g","r","a","p","e","f","r","u","i","t">>,
       <<"t","r","o","p","i","c","a","l">>,
       <<"m","a","n","g","o">>,
       <<"p","i","n","e","a","p","p","l","e">> >>

spicy_words ==
    << <<"s","p","i","c","e">>,
       <<"s","p","i","c","y">>,
       <<"p","e","p","p","e","r">>,
       <<"c","l","o","v","e">>,
       <<"c","i","n","n","a","m","o","n">>,
       <<"n","u","t","m","e","g">>,
       <<"a","n","i","s","e">> >>

floral_words ==
    << <<"f","l","o","r","a","l">>,
       <<"f","l","o","w","e","r">>,
       <<"v","i","o","l","e","t">>,
       <<"r","o","s","e">>,
       <<"j","a","s","m","i","n","e">>,
       <<"h","o","n","e","y","s","u","c","k","l","e">> >>

earthy_words ==
    << <<"e","a","r","t","h","y">>,
       <<"e","a","r","t","h">>,
       <<"m","u","s","h","r","o","o","m">>,
       <<"f","o","r","e","s","t"," ","f","l","o","o","r">>,
       <<"l","e","a","t","h","e","r">>,
       <<"t","o","b","a","c","c","o">> >>


Dry == <<"D","r","y">>
Medium == <<"M","e","d","i","u","m">>
Sweet == <<"S","w","e","e","t">>

Fruity == <<"F","r","u","i","t","y">>
Spicy == <<"S","p","i","c","y">>
Floral == <<"F","l","o","r","a","l">>
Earthy == <<"E","a","r","t","h","y">>

LiteralDry == <<"d","r","y">>

has_dry(t) == any_in(dry_words, t)

has_med(t) == any_in(medium_words, t)

has_sweet(t) == any_in(sweet_words, t)

\* mutant: a sweet-indicator decides alone
sweetness_sweet_wins(text) ==
    IF text = None \/ text = <<>> THEN Medium
    ELSE LET t == lower(text) IN
         IF has_sweet(t) THEN Sweet
         ELSE IF has_dry(t) /\ ~has_med(t) THEN Dry
         ELSE IF has_med(t) THEN Medium
         ELSE IF Contains(LiteralDry, t) THEN Dry
         ELSE Medium

sweetness_from_desc(text) ==
    IF text = None \/ text = <<>> THEN Medium
    ELSE LET t == lower(text) IN
         IF has_sweet(t) THEN (IF has_dry(t) \/ has_med(t) THEN Medium ELSE Sweet)
         ELSE IF has_dry(t) /\ ~has_med(t) THEN Dry
         ELSE IF has_med(t) THEN Medium
         ELSE IF Contains(LiteralDry, t) THEN Dry
         ELSE Medium

style_tags_from_desc(text) ==
    IF text = None \/ text = <<>> THEN {}
    ELSE LET t == lower(text) IN
         (IF any_in(fruity_words, t) THEN {Fruity} ELSE {})
         \cup (IF any_in(spicy_words, t) THEN {Spicy} ELSE {})
         \cup (IF any_in(floral_words, t) THEN {Floral} ELSE {})
         \cup (IF any_in(earthy_words, t) THEN {Earthy} ELSE {})

(***************************************************************************)
(* Numbers.  A float is [ok |-> TRUE, w |-> floor, f |-> hundredths above   *)
(* it]; ok = FALSE stands for "no number" (None, or float() raising         *)
(* ValueError).  Every text of the model has at most two fractional digits  *)
(* and at most ten integer digits, where this representation is exact and   *)
(* ordered like the IEEE doubles float() returns.                           *)
(***************************************************************************)
Digits == <<"0","1","2","3","4","5","6","7","8","9">>

DigitSet == {Digits[i] : i \in 1..10}

DigitVal == [c \in DigitSet |-> (CHOOSE i \in 1..10 : Digits[i] = c) - 1]

IntNum(n) == [ok |-> TRUE, w |-> n, f |-> 0]

NoNum == [ok |-> FALSE, w |-> 0, f |-> 0]

num_le(a, b) == a.w < b.w \/ (a.w = b.w /\ a.f <= b.f)

num_lt(a, b) == a.w < b.w \/ (a.w = b.w /\ a.f < b.f)

IsDigits(s) == \A i \in 1..Len(s) : s[i] \in DigitSet

RECURSIVE digits_value(_)
digits_value(s) ==
    IF s = <<>> THEN 0
    ELSE digits_value(SubSeq(s, 1, Len(s) - 1)) * 10 + DigitVal[s[Len(s)]]

\* float(s) for a str s: surrounding whitespace is ignored, then an optional
\* sign and a decimal literal with at least one digit; anything else raises
\* ValueError (ok = FALSE).  (Exponents, underscores, inf and nan are outside the texts of
\* the model.)
float(s) ==
    LET t == strip(s)
        signed == t # <<>> /\ t[1] \in {"+", "-"}
        neg == t # <<>> /\ t[1] = "-"
        u == IF signed THEN Tail(t) ELSE t
        dots == {i \in 1..Len(u) : u[i] = "."}
        d == IF dots = {} THEN Len(u) + 1 ELSE CHOOSE i \in dots : TRUE
        ip == SubSeq(u, 1, d - 1)
        fp == SubSeq(u, d + 1, Len(u))
        ok == /\ Cardinality(dots) <= 1
              /\ IsDigits(ip)
              /\ IsDigits(fp)
              /\ Len(ip) + Len(fp) >= 1
        whole == digits_value(ip)
        hund == digits_value(SubSeq(fp \o <<"0", "0">>, 1, 2))
    IN  IF ~ok THEN NoNum
        ELSE IF ~neg THEN [ok |-> TRUE, w |-> whole, f |-> hund]
        ELSE IF hund = 0 THEN [ok |-> TRUE, w |-> -whole, f |-> 0]
        ELSE [ok |-> TRUE, w |-> -whole - 1, f |-> 100 - hund]

safe_float(v, default) ==
    IF v = None \/ v = <<>> THEN default
    ELSE LET x == float(v) IN IF ~x.ok THEN default ELSE x

(***************************************************************************)
(* ", ".join(sorted(tags)) and split(", ")                                 *)
(***************************************************************************)
CommaSpace == <<",", " ">>

\* ord(c) for the ASCII letters
ord == [c \in UpperSet \cup {LowerAlpha[i] : i \in 1..26} |->
          IF c \in UpperSet
          THEN 64 + (CHOOSE i \in 1..26 : UpperAlpha[i] = c)
          ELSE 96 + (CHOOSE i \in 1..26 : LowerAlpha[i] = c)]

\* a < b for str, by code point
RECURSIVE str_lt(_, _)
str_lt(a, b) ==
    IF b = <<>> THEN FALSE
    ELSE IF a = <<>> THEN TRUE
    ELSE IF Head(a) = Head(b) THEN str_lt(Tail(a), Tail(b))
    ELSE ord[Head(a)] < ord[Head(b)]

\* sorted(tags) for a set of str
RECURSIVE sorted(_)
sorted(S) ==
    IF S = {} THEN <<>>
    ELSE LET m == CHOOSE x \in S : \A y \in S \ {x} : str_lt(x, y)
         IN  <<m>> \o sorted(S \ {m})

\* sep.join(parts)
RECURSIVE join(_, _)
join(sep, parts) ==
    IF parts = <<>> THEN <<>>
    ELSE IF Len(parts) = 1 THEN parts[1]
    ELSE parts[1] \o sep \o join(sep, Tail(parts))

\* s.split(sep)
RECURSIVE split(_, _)
split(s, sep) ==
    LET hits == {i \in 1..(Len(s) - Len(sep) + 1) : SubSeq(s, i, i + Len(sep) - 1) = sep}
    IN  IF hits = {} THEN <<s>>
        ELSE LET i == CHOOSE h \in hits : \A g \in hits : h <= g
             IN  <<SubSeq(s, 1, i - 1)>> \o split(SubSeq(s, i + Len(sep), Len(s)), sep)

\* Python truthiness of a str-or-None value
truthy(v) == v # None /\ v # <<>>

(***************************************************************************)
(* Description texts: up to MaxFrags fragments joined by single spaces      *)
(***************************************************************************)
F_crisp == <<"c","r","i","s","p">>

F_BoneDry == <<"B","o","n","e","-","D","r","y">>

F_offdry == <<"o","f","f","-","d","r","y">>

F_lush == <<"l","u","s","h">>

F_late_harvest == <<"l","a","t","e"," ","h","a","r","v","e","s","t">>

F_Port == <<"P","o","r","t">>

F_dry == <<"d","r","y">>

F_oak == <<"o","a","k">>

F_fruit == <<"f","r","u","i","t">>

F_Pepper == <<"P","e","p","p","e","r">>

F_rose == <<"r","o","s","e">>

F_earth == <<"e","a","r","t","h">>

Fragments == {F_crisp, F_BoneDry, F_offdry, F_lush, F_late_harvest, F_Port, F_dry, F_oak, F_fruit, F_Pepper, F_rose, F_earth}

(***************************************************************************)
(* The dataset: CSV rows as csv.DictReader yields them.  A field of a row  *)
(* shorter than the header is None.                                         *)
(***************************************************************************)
W_pinot ==
    [title |-> <<"A","v","a">>,
     description |-> <<"c","r","i","s","p"," ","P","e","p","p","e","r">>,
     price |-> <<"1","9",".","9","9">>,
     points |-> <<"9","0">>,
     country |-> <<"U","S">>,
     variety |-> <<"P","i","n","o","t"," ","N","o","i","r">>]

W_riesling ==
    [title |-> <<"B","e","l">>,
     description |-> <<"l","a","t","e"," ","h","a","r","v","e","s","t"," ","f","r","u","i","t">>,
     price |-> <<"2","0">>,
     points |-> <<>>,
     country |-> <<"A","u","s","t","r","a","l","i","a">>,
     variety |-> <<"R","i","e","s","l","i","n","g">>]

W_tie ==
    [title |-> <<"C","r","u">>,
     description |-> None,
     price |-> <<" ","2","0",".","0"," ">>,
     points |-> <<"8","8">>,
     country |-> None,
     variety |-> None]

W_noprice ==
    [title |-> <<"D","o","m">>,
     description |-> <<"d","r","y"," ","e","a","r","t","h"," ","r","o","s","e">>,
     price |-> <<>>,
     points |-> <<"9","5">>,
     country |-> <<"F","r","a","n","c","e">>,
     variety |-> <<"P","i","n","o","t"," ","G","r","i","s">>]

W_huge ==
    [title |-> <<"E","v","e">>,
     description |-> <<>>,
     price |-> <<"1","0","0","0","0","0","0","0","0","0">>,
     points |-> <<"N","/","A">>,
     country |-> <<"I","t","a","l","y">>,
     variety |-> <<>>]

W_badprice ==
    [title |-> <<"F","a","y">>,
     description |-> <<"o","f","f","-","d","r","y"," ","P","o","r","t">>,
     price |-> <<"N","/","A">>,
     points |-> <<"8","5">>,
     country |-> <<>>,
     variety |-> <<"P","o","r","t">>]

W_negative ==
    [title |-> <<"G","i","l">>,
     description |-> <<"l","u","s","h">>,
     price |-> <<"-","1">>,
     points |-> <<" ","9","1"," ">>,
     country |-> <<"u","s">>,
     variety |-> <<"p","i","n","o","t">>]

W_untitled ==
    [title |-> <<>>,
     description |-> <<"z","e","s","t","y">>,
     price |-> <<"5">>,
     points |-> <<"8","0">>,
     country |-> <<"U","S">>,
     variety |-> <<"M","e","r","l","o","t">>]

W_short ==
    [title |-> <<"H","a","l">>,
     description |-> None,
     price |-> None,
     points |-> None,
     country |-> None,
     variety |-> None]

Rows == {W_pinot, W_riesling, W_tie, W_noprice, W_huge, W_badprice, W_negative, W_untitled, W_short}

PRICE_ASC == <<"p","r","i","c","e","_","a","s","c">>

PRICE_DESC == <<"p","r","i","c","e","_","d","e","s","c">>

POINTS_DESC == <<"p","o","i","n","t","s","_","d","e","s","c">>

Q_us == <<"u","s">>

Q_Pinot == <<"P","i","n","o","t">>

Q_20 == <<"2","0">>

Q_19 == <<"1","9">>

Q_abc == <<"a","b","c">>

Q_dry == <<"d","r","y">>

Q_Spicy == <<"S","p","i","c","y">>

ConnectionError == <<"C","o","n","n","e","c","t","i","o","n","E","r","r","o","r">>

OSError == <<"O","S","E","r","r","o","r">>

(***************************************************************************)
(* Bounds of the model                                                     *)
(***************************************************************************)
\* rows in a dataset
MaxRows == 2

\* non-default fields of one query
MaxActive == 2

\* fragments in a description text given to the classifier
MaxFrags == 2

\* the limit argument of load_wines ranges over 0..MaxLimit
MaxLimit == 3

\* pagination: match counts 0..MaxTotal, page requests (1 - MaxPage)..MaxPage
MaxTotal == 30

MaxPage == 4

RECURSIVE SeqsUpTo(_, _)
SeqsUpTo(S, n) ==
    IF n = 0 THEN {<<>>}
    ELSE LET shorter == SeqsUpTo(S, n - 1)
         IN  shorter \cup {Append(s, x) : s \in {t \in shorter : Len(t) = n - 1}, x \in S}

Datasets == SeqsUpTo(Rows, MaxRows)

Texts == {join(<<" ">>, fs) : fs \in SeqsUpTo(Fragments, MaxFrags)}

(***************************************************************************)
(* Data Loader: load_wines                                                  *)
(***************************************************************************)
LOAD_LIMIT == 5000

\* CSV_FILE on disk
Absent == [exists |-> FALSE, rows |-> <<>>]

Present(rows) == [exists |-> TRUE, rows |-> rows]

\* mutant: the tags are joined in the order they are added, unsorted
wine_of_unsorted_tags(row) ==
    LET desc == IF truthy(row.description) THEN row.description ELSE <<>>
        tags == style_tags_from_desc(desc)
    IN  [title |-> row.title,
         description |-> row.description,
         price |-> strip(row.price),
         points |-> strip(row.points),
         country |-> row.country,
         variety |-> row.variety,
         sweetness_cat |-> sweetness_from_desc(desc),
         style_tags |-> join(CommaSpace,
                             SelectSeq(<<Fruity, Spicy, Floral, Earthy>>,
                                       LAMBDA tag : tag \in tags))]

\* the body of the loop for one row with a title
wine_of(row) ==
    LET desc == IF truthy(row.description) THEN row.description ELSE <<>>
    IN  [title |-> row.title,
         description |-> row.description,
         price |-> strip(row.price),
         points |-> strip(row.points),
         country |-> row.country,
         variety |-> row.variety,
         sweetness_cat |-> sweetness_from_desc(desc),
         style_tags |-> join(CommaSpace, sorted(style_tags_from_desc(desc)))]

\* wine_of, tabulated over the rows of the model
wine_table == [row \in Rows |-> wine_of(row)]

\* the for loop: raised = TRUE when .strip() is called on a None field
RECURSIVE load_rows(_, _, _)
load_rows(rows, wines, limit) ==
    IF rows = <<>> THEN [raised |-> FALSE, wines |-> wines]
    ELSE LET row == Head(rows) IN
         IF ~truthy(row.title) THEN load_rows(Tail(rows), wines, limit)
         ELSE IF row.price = None \/ row.points = None
              THEN [raised |-> TRUE, wines |-> <<>>]
         ELSE LET ws == Append(wines, wine_table[row]) IN
              IF Len(ws) >= limit THEN [raised |-> FALSE, wines |-> ws]
              ELSE load_rows(Tail(rows), ws, limit)

load_wines(file, limit) ==
    IF ~file.exists THEN [raised |-> FALSE, wines |-> <<>>]
    ELSE load_rows(file.rows, <<>>, limit)

(***************************************************************************)
(* The cache: download_wine_csv, ensure_wines_loaded                        *)
(***************************************************************************)
EmptyCache ==
    [loading |-> FALSE, loaded |-> FALSE, wines |-> <<>>, rows |-> 0, last_error |-> None]

\* What the write of CSV_FILE can do with the content the GET returned: the
\* number of rows that reach the file; fewer than all when f.write raises.
Writes(content) == 0..Len(content)

\* up: requests.get and raise_for_status succeed, returning content
download_wine_csv(file, cache, up, content, written) ==
    IF ~up
    THEN [file |-> file,
          cache |-> [cache EXCEPT !.loading = FALSE, !.last_error = ConnectionError]]
    ELSE IF written < Len(content)
    THEN [file |-> Present(SubSeq(content, 1, written)),
          cache |-> [cache EXCEPT !.loading = FALSE, !.last_error = OSError]]
    ELSE [file |-> Present(content),
          cache |-> [cache EXCEPT !.loading = FALSE, !.last_error = None]]

\* mutant: the early return on WINES_CACHE["loaded"] is missing
ensure_wines_always_loads(file, cache, up, content, written) ==
    LET d == IF ~file.exists
             THEN download_wine_csv(file, cache, up, content, written)
             ELSE [file |-> file, cache |-> cache]
        l == load_wines(d.file, LOAD_LIMIT)
    IN  IF l.raised
        THEN [file |-> d.file, cache |-> d.cache, raised |-> TRUE,
              download |-> ~file.exists, load |-> TRUE]
        ELSE [file |-> d.file,
              cache |-> [d.cache EXCEPT !.wines = l.wines,
                                        !.rows = Len(l.wines),
                                        !.loaded = TRUE],
              raised |-> FALSE, download |-> ~file.exists, load |-> TRUE]

\* download and load tell whether download_wine_csv and load_wines were called
ensure_wines_loaded(file, cache, up, content, written) ==
    IF cache.loaded
    THEN [file |-> file, cache |-> cache, raised |-> FALSE,
          download |-> FALSE, load |-> FALSE]
    ELSE LET d == IF ~file.exists
                  THEN download_wine_csv(file, cache, up, content, written)
                  ELSE [file |-> file, cache |-> cache]
             l == load_wines(d.file, LOAD_LIMIT)
         IN  IF l.raised
             THEN [file |-> d.file, cache |-> d.cache, raised |-> TRUE,
                   download |-> ~file.exists, load |-> TRUE]
             ELSE [file |-> d.file,
                   cache |-> [d.cache EXCEPT !.wines = l.wines,
                                             !.rows = Len(l.wines),
                                             !.loaded = TRUE],
                   raised |-> FALSE, download |-> ~file.exists, load |-> TRUE]

(***************************************************************************)
(* Query Engine: the filters, the sort and the pagination of index          *)
(***************************************************************************)
per_page == 12

by_country(ws, country) ==
    IF ~truthy(country) THEN ws
    ELSE LET c == lower(country) IN
         SelectSeq(ws, LAMBDA w : truthy(w.country) /\ Contains(c, lower(w.country)))

by_variety(ws, variety) ==
    IF ~truthy(variety) THEN ws
    ELSE LET v == lower(variety) IN
         SelectSeq(ws, LAMBDA w :
             Contains(v, lower(IF truthy(w.variety) THEN w.variety ELSE <<>>)))

\* mutant: a missing or malformed price counts as 0
by_max_price_missing_is_zero(ws, max_price) ==
    IF ~truthy(max_price) THEN ws
    ELSE LET p == float(max_price) IN
         IF ~p.ok THEN ws
         ELSE SelectSeq(ws, LAMBDA w : num_le(safe_float(w.price, IntNum(0)), p))

by_max_price(ws, max_price) ==
    IF ~truthy(max_price) THEN ws
    ELSE LET p == float(max_price) IN
         IF ~p.ok THEN ws
         ELSE SelectSeq(ws, LAMBDA w :
                  LET x == safe_float(w.price, NoNum) IN x.ok /\ num_le(x, p))

by_sweetness(ws, sweetness) ==
    IF ~truthy(sweetness) THEN ws
    ELSE LET s == lower(sweetness) IN
         SelectSeq(ws, LAMBDA w : truthy(w.sweetness_cat) /\ lower(w.sweetness_cat) = s)

by_style(ws, style) ==
    IF ~truthy(style) THEN ws
    ELSE SelectSeq(ws, LAMBDA w :
             /\ truthy(w.style_tags)
             /\ LET tags == split(w.style_tags, CommaSpace)
                IN  \E k \in 1..Len(tags) : tags[k] = style)

\* mutant: the style filter starts again from the whole catalog
apply_filters_style_from_all(ws, q) ==
    IF truthy(q.style) THEN by_style(ws, q.style)
    ELSE by_sweetness(by_max_price(by_variety(by_country(ws, q.country), q.variety),
                                   q.max_price), q.sweetness)

apply_filters(ws, q) ==
    by_style(by_sweetness(by_max_price(by_variety(by_country(ws, q.country), q.variety),
                                       q.max_price), q.sweetness), q.style)

\* sorted(items, key=..., reverse=...) given the keys of the items: a stable
\* sort; with reverse the larger key comes first and equal keys keep their
\* input order.
sorted_by(items, keys, reverse) ==
    LET n == Len(items)
        before(j, i) ==
            \/ (IF reverse THEN num_lt(keys[i], keys[j]) ELSE num_lt(keys[j], keys[i]))
            \/ (keys[j] = keys[i] /\ j < i)
        rank(i) == Cardinality({j \in 1..n : before(j, i)}) + 1
    IN  [k \in 1..n |-> items[CHOOSE i \in 1..n : rank(i) = k]]

\* mutant: price_desc uses the sentinel of price_asc
apply_sort_one_sentinel(ws, sort) ==
    IF sort = PRICE_ASC
    THEN sorted_by(ws, [i \in 1..Len(ws) |-> safe_float(ws[i].price, IntNum(1000000000))], FALSE)
    ELSE IF sort = PRICE_DESC
    THEN sorted_by(ws, [i \in 1..Len(ws) |-> safe_float(ws[i].price, IntNum(1000000000))], TRUE)
    ELSE IF sort = POINTS_DESC
    THEN sorted_by(ws, [i \in 1..Len(ws) |-> safe_float(ws[i].points, IntNum(0))], TRUE)
    ELSE ws

\* mutant: price_desc sorts without reverse
apply_sort_desc_not_reversed(ws, sort) ==
    IF sort = PRICE_ASC
    THEN sorted_by(ws, [i \in 1..Len(ws) |-> safe_float(ws[i].price, IntNum(1000000000))], FALSE)
    ELSE IF sort = PRICE_DESC
    THEN sorted_by(ws, [i \in 1..Len(ws) |-> safe_float(ws[i].price, IntNum(-1))], FALSE)
    ELSE IF sort = POINTS_DESC
    THEN sorted_by(ws, [i \in 1..Len(ws) |-> safe_float(ws[i].points, IntNum(0))], TRUE)
    ELSE ws

apply_sort(ws, sort) ==
    IF sort = PRICE_ASC
    THEN sorted_by(ws, [i \in 1..Len(ws) |-> safe_float(ws[i].price, IntNum(1000000000))], FALSE)
    ELSE IF sort = PRICE_DESC
    THEN sorted_by(ws, [i \in 1..Len(ws) |-> safe_float(ws[i].price, IntNum(-1))], TRUE)
    ELSE IF sort = POINTS_DESC
    THEN sorted_by(ws, [i \in 1..Len(ws) |-> safe_float(ws[i].points, IntNum(0))], TRUE)
    ELSE ws

\* mutant: integer division instead of math.ceil
floor_div(a, b) == a \div b

\* math.ceil(a / b) for a >= 0, b > 0
ceil_div(a, b) == (a + b - 1) \div b

Max(a, b) == IF a >= b THEN a ELSE b

Min(a, b) == IF a <= b THEN a ELSE b

total_pages_of(total) == Max(1, ceil_div(total, per_page))

\* mutant: the upper clamp is missing
clamp_page_below_only(page, total_pages) == IF page < 1 THEN 1 ELSE page

clamp_page(page, total_pages) ==
    IF page < 1 THEN 1 ELSE IF page > total_pages THEN total_pages ELSE page

paginate(filtered, page) ==
    LET total == Len(filtered)
        total_pages == total_pages_of(total)
        pg == clamp_page(page, total_pages)
        start == (pg - 1) * per_page
    IN  [results |-> SubSeq(filtered, start + 1, Min(start + per_page, total)),
         total |-> total,
         page |-> pg,
         total_pages |-> total_pages]

(***************************************************************************)
(* Requests                                                                *)
(***************************************************************************)
NoQuery ==
    [country |-> <<>>, variety |-> <<>>, max_price |-> <<>>, sweetness |-> <<>>,
     style |-> <<>>, sort |-> <<>>, page |-> 1]

AllQueries ==
    [country : {<<>>, Q_us},
     variety : {<<>>, Q_Pinot},
     max_price : {<<>>, Q_20, Q_19, Q_abc},
     sweetness : {<<>>, Q_dry},
     style : {<<>>, Q_Spicy},
     sort : {<<>>, PRICE_ASC, PRICE_DESC, POINTS_DESC},
     page : {1, 2}]

FieldNames == {"country", "variety", "max_price", "sweetness", "style", "sort", "page"}

Active(q) == {f \in FieldNames : q[f] # NoQuery[f]}

QueriesUpTo(k) == {q \in AllQueries : Cardinality(Active(q)) <= k}

\* the requests of the query specification, and the fewer of the lifecycle
Queries == QueriesUpTo(MaxActive)

FewQueries ==
    {NoQuery,
     [NoQuery EXCEPT !.country = Q_us],
     [NoQuery EXCEPT !.max_price = Q_20],
     [NoQuery EXCEPT !.sort = PRICE_ASC],
     [NoQuery EXCEPT !.page = 2]}

(***************************************************************************)
(* Flask routes                                                            *)
(***************************************************************************)
NoResponse == [kind |-> "none"]

\* the handler that ran last, and whether it called download_wine_csv and load_wines
NotHandled == [handler |-> "none", download |-> FALSE, load |-> FALSE]

Handled(name, e) == [handler |-> name, download |-> e.download, load |-> e.load]

\* what index returns once ensure_wines_loaded has run
index_response(cache, q) ==
    IF truthy(cache.last_error)
    THEN [kind |-> "error", message |-> cache.last_error]
    ELSE LET filtered == apply_sort(apply_filters(cache.wines, q), q.sort)
             pg == paginate(filtered, q.page)
         IN  [kind |-> "page", q |-> q, results |-> pg.results, total |-> pg.total,
              page |-> pg.page, total_pages |-> pg.total_pages,
              WINES_CACHE_rows |-> cache.rows]

NeedsDownload(file, cache) == ~cache.loaded /\ ~file.exists

\* GET or POST /
index(q) ==
    /\ phase \in {"boot", "serving"}
    /\ \E written \in (IF NeedsDownload(csv_file, WINES_CACHE) /\ drive_up
                       THEN Writes(drive_csv) ELSE {Len(drive_csv)}) :
         LET e == ensure_wines_loaded(csv_file, WINES_CACHE, drive_up, drive_csv, written) IN
         /\ csv_file' = e.file
         /\ WINES_CACHE' = e.cache
         /\ response' = IF e.raised THEN [kind |-> "exception"]
                        ELSE index_response(e.cache, q)
         /\ handled' = Handled("index", e)
    /\ phase' = "serving"
    /\ UNCHANGED <<drive_csv, drive_up, call, ret>>

\* GET /admin/refresh_csv
refresh_csv ==
    /\ phase \in {"boot", "serving"}
    /\ \E written \in (IF drive_up THEN Writes(drive_csv) ELSE {Len(drive_csv)}) :
         LET e == ensure_wines_loaded(Absent, EmptyCache, drive_up, drive_csv, written) IN
         /\ csv_file' = e.file
         /\ WINES_CACHE' = e.cache
         /\ response' = IF e.raised THEN [kind |-> "exception"] ELSE [kind |-> "redirect"]
         /\ handled' = Handled("refresh_csv", e)
    /\ phase' = "serving"
    /\ UNCHANGED <<drive_csv, drive_up, call, ret>>

\* python app.py: ensure_wines_loaded() before app.run(); an exception ends the process
main ==
    /\ phase = "boot"
    /\ \E written \in (IF NeedsDownload(csv_file, WINES_CACHE) /\ drive_up
                       THEN Writes(drive_csv) ELSE {Len(drive_csv)}) :
         LET e == ensure_wines_loaded(csv_file, WINES_CACHE, drive_up, drive_csv, written) IN
         /\ csv_file' = e.file
         /\ WINES_CACHE' = e.cache
         /\ phase' = IF e.raised THEN "exited" ELSE "serving"
         /\ handled' = Handled("main", e)
    /\ UNCHANGED <<drive_csv, drive_up, response, call, ret>>

\* the environment: Google Drive becomes reachable or unreachable
drive_changes ==
    /\ drive_up' = ~drive_up
    /\ UNCHANGED <<csv_file, WINES_CACHE, drive_csv, response, phase, handled, call, ret>>

NoCall == [fn |-> "none"]

\* The file at CSV_DRIVE_URL is some dataset; CSV_FILE is missing or an
\* earlier download of it.
Init ==
    /\ drive_csv \in Datasets
    /\ csv_file \in {Absent, Present(drive_csv)}
    /\ WINES_CACHE = EmptyCache
    /\ drive_up \in BOOLEAN
    /\ response = NoResponse
    /\ phase = "boot"
    /\ handled = NotHandled
    /\ call = NoCall
    /\ ret = <<>>

Next ==
    \/ main
    \/ \E q \in FewQueries : index(q)
    \/ refresh_csv
    \/ drive_changes

Spec == Init /\ [][Next]_vars

(***************************************************************************)
(* The query engine over every catalog: the dataset is on disk, requests    *)
(* with up to MaxActive non-default fields.                                 *)
(***************************************************************************)
InitQuery ==
    /\ drive_csv \in Datasets
    /\ csv_file = Present(drive_csv)
    /\ WINES_CACHE = EmptyCache
    /\ drive_up = TRUE
    /\ response = NoResponse
    /\ phase = "boot"
    /\ handled = NotHandled
    /\ call \in {[fn |-> "index", q |-> q] : q \in Queries}
    /\ ret = <<>>

NextQuery == response.kind = "none" /\ index(call.q)

SpecQuery == InitQuery /\ [][NextQuery]_vars

(***************************************************************************)
(* The pure functions, applied to inputs drawn by the initial state         *)
(***************************************************************************)
Idle ==
    /\ drive_csv = <<>>
    /\ csv_file = Absent
    /\ WINES_CACHE = EmptyCache
    /\ drive_up = TRUE
    /\ response = NoResponse
    /\ phase = "boot"
    /\ handled = NotHandled
    /\ ret = <<>>

Return(v) ==
    /\ ret = <<>>
    /\ ret' = <<v>>
    /\ UNCHANGED <<csv_file, WINES_CACHE, drive_csv, drive_up, response, phase, handled, call>>

\* Classifier
InitClassify == Idle /\ call \in {[fn |-> "classify", text |-> t] : t \in Texts \cup {None}}

classify ==
    /\ call.fn = "classify"
    /\ Return([sweetness |-> sweetness_from_desc(call.text),
               tags |-> style_tags_from_desc(call.text)])

SpecClassify == InitClassify /\ [][classify]_vars

\* load_wines(limit)
InitLoad ==
    /\ Idle
    /\ call \in {[fn |-> "load_wines", file |-> f, limit |-> n] :
                    f \in {Absent} \cup {Present(ds) : ds \in Datasets}, n \in 0..MaxLimit}

call_load_wines ==
    /\ call.fn = "load_wines"
    /\ Return(load_wines(call.file, call.limit))

SpecLoad == InitLoad /\ [][call_load_wines]_vars

\* the pagination of index over a filtered list of call.total matches
InitPage ==
    /\ Idle
    /\ call \in {[fn |-> "paginate", total |-> n, page |-> p] :
                    n \in 0..MaxTotal, p \in (1 - MaxPage)..MaxPage}

call_paginate ==
    /\ call.fn = "paginate"
    /\ Return(paginate([i \in 1..call.total |-> i], call.page))

SpecPage == InitPage /\ [][call_paginate]_vars

(***************************************************************************)
(* Properties                                                              *)
(***************************************************************************)
Returned == Len(ret) = 1

Reverse(s) == [i \in 1..Len(s) |-> s[Len(s) + 1 - i]]

\* s is a subsequence of t
RECURSIVE IsSubseq(_, _)
IsSubseq(s, t) ==
    IF s = <<>> THEN TRUE
    ELSE IF t = <<>> THEN FALSE
    ELSE IF Head(s) = Head(t) THEN IsSubseq(Tail(s), Tail(t))
    ELSE IsSubseq(s, Tail(t))

\* the price of a catalog record parses
ValidPrice(w) == safe_float(w.price, NoNum).ok

PriceOf(w) == safe_float(w.price, NoNum)

ValidSub(ws) == SelectSeq(ws, ValidPrice)

\* C1 (as claimed): a fetch failure is cleared by a retry.  Whenever an index
\* request is handled while last_error records a failed GET and Google Drive
\* is reachable again, the request leaves last_error cleared and the catalog
\* populated from the dataset.
C1_RetryClearsFetchFailure ==
    [][(/\ WINES_CACHE.last_error = ConnectionError
        /\ drive_up
        /\ \E q \in FewQueries : index(q))
       => (/\ WINES_CACHE'.last_error = None
           /\ WINES_CACHE'.wines = load_wines(Present(drive_csv), LOAD_LIMIT).wines)]_vars

\* C2 (as claimed): the total page count equals ceil(T / P) for every T >= 0,
\* that is, it is the least n with n * P >= T.
C2_TotalPagesIsCeil ==
    Returned =>
        /\ ret[1].total_pages * per_page >= call.total
        /\ (ret[1].total_pages - 1) * per_page < call.total

\* C2 (amended): the total page count is 1 when T = 0 and ceil(T / P), the
\* least n with n * P >= T, when T >= 1; the total match count is T.
C2_TotalPagesIsCeilOrOne ==
    Returned =>
        /\ ret[1].total = call.total
        /\ call.total = 0 => ret[1].total_pages = 1
        /\ call.total >= 1 =>
              /\ ret[1].total_pages * per_page >= call.total
              /\ (ret[1].total_pages - 1) * per_page < call.total

C2_Witness == Returned /\ call.total = 2 * per_page + 1 /\ ret[1].total_pages = 3

\* C3: every integer page request is clamped into [1, total_pages]: a request
\* below 1 yields the first page (starting at the first match), a request above
\* total_pages yields the last page (ending at the last match), a request in
\* range is kept, and the slice holds between 1 and per_page records whenever
\* T > 0.
C3_PageClamped ==
    Returned =>
        LET r == ret[1] IN
        /\ r.page \in 1..r.total_pages
        /\ call.page < 1 => r.page = 1
        /\ call.page > r.total_pages => r.page = r.total_pages
        /\ call.page \in 1..r.total_pages => r.page = call.page
        /\ call.total > 0 =>
              /\ Len(r.results) \in 1..per_page
              /\ r.page = 1 => r.results[1] = 1
              /\ r.page = r.total_pages => r.results[Len(r.results)] = call.total

C3_Witness ==
    /\ Returned
    /\ call.total = 2 * per_page + 1
    /\ call.page = 4
    /\ ret[1].page = 3
    /\ ret[1].results = <<call.total>>

SortedByPrice == response.kind = "page" /\ response.q.sort \in {PRICE_ASC, PRICE_DESC}

\* C4 (as claimed): under price_asc and price_desc every record whose price is
\* missing or unparseable comes after every record with a valid price,
\* whatever the valid prices are.
C4_InvalidPricesLast ==
    SortedByPrice =>
        \A i, j \in 1..Len(response.results) :
            (ValidPrice(response.results[i]) /\ ~ValidPrice(response.results[j])) => i < j

\* C4 (amended): under price_asc every record whose price is missing or
\* unparseable comes after every record with a valid price below 10**9, and
\* under price_desc after every record with a valid price above -1.
C4_InvalidPricesAfterPricesWithinSentinels ==
    SortedByPrice =>
        \A i, j \in 1..Len(response.results) :
            LET a == response.results[i]
                b == response.results[j]
                within == IF response.q.sort = PRICE_ASC
                          THEN num_lt(PriceOf(a), IntNum(1000000000))
                          ELSE num_lt(IntNum(-1), PriceOf(a))
            IN  (ValidPrice(a) /\ within /\ ~ValidPrice(b)) => i < j

C4_Witness ==
    /\ response.kind = "page"
    /\ response.q.sort = PRICE_DESC
    /\ Len(WINES_CACHE.wines) = 2
    /\ ~ValidPrice(WINES_CACHE.wines[1])
    /\ ValidPrice(WINES_CACHE.wines[2])
    /\ response.results = <<WINES_CACHE.wines[2], WINES_CACHE.wines[1]>>

\* what the same request returns under price_asc
AscendingResults == index_response(WINES_CACHE, [response.q EXCEPT !.sort = PRICE_ASC]).results

\* C5 (as claimed): for every filtered set the valid-price records under
\* price_desc are exactly the reverse of the valid-price records under
\* price_asc.
C5_DescIsReverseOfAsc ==
    (response.kind = "page" /\ response.q.sort = PRICE_DESC) =>
        ValidSub(response.results) = Reverse(ValidSub(AscendingResults))

\* C5 (amended): for every filtered set in which no two records have the same
\* valid price, the valid-price records under price_desc are exactly the
\* reverse of the valid-price records under price_asc.
C5_DescIsReverseOfAscForDistinctPrices ==
    (response.kind = "page" /\ response.q.sort = PRICE_DESC) =>
        LET v == ValidSub(response.results)
            distinct == \A i, j \in 1..Len(v) : i # j => PriceOf(v[i]) # PriceOf(v[j])
        IN  distinct => v = Reverse(ValidSub(AscendingResults))

C5_Witness ==
    /\ response.kind = "page"
    /\ response.q.sort = PRICE_DESC
    /\ Len(ValidSub(response.results)) = 2
    /\ num_lt(PriceOf(WINES_CACHE.wines[1]), PriceOf(WINES_CACHE.wines[2]))
    /\ response.results = <<WINES_CACHE.wines[2], WINES_CACHE.wines[1]>>

\* the rows of a file that have a title, in source order
Titled(rows) == SelectSeq(rows, LAMBDA row : truthy(row.title))

\* C6 (as claimed): for every limit L >= 0, L = 0 included, load_wines(L)
\* returns at most L records, and they come from the first rows with a
\* non-empty title, in source order.
C6_LoadCappedAtLimit ==
    (Returned /\ ~ret[1].raised) =>
        LET wines == ret[1].wines
            titled == Titled(call.file.rows)
        IN  /\ Len(wines) <= call.limit
            /\ Len(wines) <= Len(titled)
            /\ \A i \in 1..Len(wines) : wines[i].title = titled[i].title

SweetnessPolicy(sweet, dry, med, literal_dry) ==
    IF sweet /\ (dry \/ med) THEN Medium
    ELSE IF sweet THEN Sweet
    ELSE IF dry /\ ~med THEN Dry
    ELSE IF med THEN Medium
    ELSE IF literal_dry THEN Dry
    ELSE Medium

\* C7: sweetness_from_desc returns one of Dry/Medium/Sweet for every text,
\* Medium for empty or absent text, and otherwise what the ordered policy over
\* the four signals gives; a text with a sweet-indicator and a dry-indicator
\* is Medium.
C7_SweetnessPolicy ==
    Returned =>
        LET text == call.text
            t == lower(text)
            label == ret[1].sweetness
        IN  /\ label \in {Dry, Medium, Sweet}
            /\ (text = None \/ text = <<>>) => label = Medium
            /\ truthy(text) =>
                  /\ label = SweetnessPolicy(any_in(sweet_words, t), any_in(dry_words, t),
                                             any_in(medium_words, t), Contains(LiteralDry, t))
                  /\ (any_in(sweet_words, t) /\ any_in(dry_words, t)) => label = Medium

C7_Witness ==
    /\ Returned
    /\ call.text = F_late_harvest \o <<" ">> \o F_crisp
    /\ ret[1].sweetness = Medium

\* the four tags in alphabetical order
TagOrder == <<Earthy, Floral, Fruity, Spicy>>

\* the serialisations of the subsets of the four tags
TagStrings ==
    {join(CommaSpace, SelectSeq(TagOrder, LAMBDA tag : tag \in S)) :
        S \in SUBSET {Earthy, Floral, Fruity, Spicy}}

\* C8: every record of the cached catalog has a non-empty title, a
\* sweetness_cat that is one of Dry/Medium/Sweet, and a style_tags string that
\* is the alphabetically sorted, ", "-joined list of distinct tags among
\* Fruity/Spicy/Floral/Earthy.
C8_CatalogRecordsWellFormed ==
    \A i \in 1..Len(WINES_CACHE.wines) :
        LET w == WINES_CACHE.wines[i] IN
        /\ w.title # None /\ w.title # <<>>
        /\ w.sweetness_cat \in {Dry, Medium, Sweet}
        /\ w.style_tags \in TagStrings

C8_Witness ==
    /\ response.kind = "redirect"
    /\ WINES_CACHE.loaded
    /\ \E i \in 1..Len(WINES_CACHE.wines) :
          WINES_CACHE.wines[i].style_tags = Earthy \o CommaSpace \o Floral

\* what the same request returns without its max_price parameter
WithoutMaxPrice == index_response(WINES_CACHE, [response.q EXCEPT !.max_price = <<>>]).results

\* C9: when max_price parses as a number p the result keeps exactly the
\* records whose price parses and is <= p; when it does not parse every record
\* passes.  The record priced 19.99 is kept for max_price 20 and dropped for
\* max_price 19.
C9_MaxPriceFilter ==
    (response.kind = "page" /\ truthy(response.q.max_price)) =>
        LET p == float(response.q.max_price)
            unbounded == WithoutMaxPrice
            titles == {response.results[i].title : i \in 1..Len(response.results)}
            base == {unbounded[i].title : i \in 1..Len(unbounded)}
        IN  /\ p.ok => response.results =
                          SelectSeq(unbounded,
                                    LAMBDA w : ValidPrice(w) /\ num_le(PriceOf(w), p))
            /\ ~p.ok => response.results = unbounded
            /\ (response.q.max_price = Q_20 /\ W_pinot.title \in base) => W_pinot.title \in titles
            /\ response.q.max_price = Q_19 => W_pinot.title \notin titles
            /\ response.q.max_price = Q_abc => ~p.ok

C9_Witness ==
    /\ response.kind = "page"
    /\ response.q.max_price = Q_20
    /\ Len(WINES_CACHE.wines) = 2
    /\ \E i \in 1..2 : ~ValidPrice(WINES_CACHE.wines[i])
    /\ Len(response.results) = 1
    /\ response.results[1].title = W_pinot.title

FilterNames == {"country", "variety", "max_price", "sweetness", "style"}

\* C10: a request with one more non-empty filter than another matches no more
\* records, and its matches are a subsequence of the other's.  For every
\* non-empty filter of the handled request, dropping that filter gives a total
\* at least as large and results that contain the handled request's results
\* in order.
C10_FilteringMonotonic ==
    response.kind = "page" =>
        \A f \in FilterNames :
            truthy(response.q[f]) =>
                LET fewer == index_response(WINES_CACHE, [response.q EXCEPT ![f] = <<>>])
                IN  /\ response.total <= fewer.total
                    /\ IsSubseq(response.results, fewer.results)

C10_Witness ==
    /\ response.kind = "page"
    /\ truthy(response.q.country)
    /\ truthy(response.q.style)
    /\ response.total = 1
    /\ index_response(WINES_CACHE, [response.q EXCEPT !.style = <<>>]).total = 2

\* C11: the loader runs once.  Once ensure_wines_loaded has completed
\* (WINES_CACHE["loaded"] is set), an index request calls neither
\* download_wine_csv nor load_wines and leaves WINES_CACHE (wines, rows,
\* loaded and the records) and CSV_FILE as they are; the only step that
\* changes the loaded cache is refresh_csv.  (A step that leaves drive_up
\* alone is a handler's; handled' names the handler.)
C11_LoaderRunsOnce ==
    [][WINES_CACHE.loaded =>
          /\ (handled'.handler = "index" /\ drive_up' = drive_up) =>
                /\ ~handled'.download
                /\ ~handled'.load
                /\ WINES_CACHE' = WINES_CACHE
                /\ csv_file' = csv_file
          /\ WINES_CACHE' # WINES_CACHE => handled'.handler = "refresh_csv"]_vars

\* an index request answered from the cached catalog
C11_Witness ==
    /\ handled = [handler |-> "index", download |-> FALSE, load |-> FALSE]
    /\ response.kind = "page"
    /\ WINES_CACHE.loaded
    /\ WINES_CACHE.rows = 2
    /\ Len(response.results) = 1

====
